---- MODULE Spec2Model ----
(***************************************************************************)
(* A model of deco.py: the combinators countcalls, memo, n_ary and trace   *)
(* stacked around one underlying function.  Every function object has a    *)
(* name, a docstring and an attribute dictionary (__dict__); dictionaries  *)
(* live in a heap so that sharing by identity can be told from copying.    *)
(* A call is executed statement by statement on an explicit call stack.    *)
(***************************************************************************)
EXTENDS Integers, Sequences, FiniteSets, TLC

VARIABLES
    base,       \* the underlying function the stack is built around
    wrappers,   \* wrappers[i] is the i-th wrapper; wrappers[1] wraps base
    dicts,      \* heap of attribute dictionaries, indexed by identity
    frames,     \* the call stack, innermost call last
    ret,        \* outcome handed from a finished call to its caller
    out,        \* lines printed to standard output
    invoked,    \* invoked[l]: how many times the body of layer l has run
    mlog,       \* history of memo lookups that ended (hit, miss, raise)
    flog,       \* calls n_ary wrappers made to f in the latest top-level call
    ncalls,     \* number of top-level calls made so far
    top         \* the latest top-level call

vars == <<base, wrappers, dicts, frames, ret, out, invoked, mlog, flog, ncalls, top>>

(* ------------------------------ bounds -------------------------------- *)

MaxStack == 2       \* wrappers stacked around the underlying function
MaxCalls == 2       \* top-level calls in one run
MaxArgs == 3        \* arguments of one top-level call
MaxN == 6           \* argument of a top-level call of fib

Vals == {0, 1}                  \* argument values
KwNames == {"a", "b"}           \* names usable for named arguments
Bases == {"foo", "bar", "sub"}  \* underlying functions: a+b, a*b, a-b
Kinds == {"countcalls", "memo", "n_ary", "trace"}
Recursive == {"fib", "fib0", "fibz"}    \* fib, and fib with falsy leaves
Passers == {"decorator", "disable"}     \* wrappers with a dictionary of their own

(* ------------------------ values and outcomes ------------------------- *)

NoDoc == "None"

\* the value None, which a body without a return statement returns
None == 0 - 1000

Ret(v) == [kind |-> "value", val |-> v, err |-> ""]
Raise(e) == [kind |-> "error", val |-> 0, err |-> e]
NoRet == [kind |-> "none", val |-> 0, err |-> ""]

EmptyDict == [x \in {} |-> 0]

GetAttr(d, a, default) == IF a \in DOMAIN d THEN d[a] ELSE default

SetAttr(d, a, v) == [x \in DOMAIN d \cup {a} |-> IF x = a THEN v ELSE d[x]]

(* ----------------------- the underlying function ---------------------- *)

BaseName(b) == b

BaseDoc(b) == IF b \in Recursive THEN "Some doc" ELSE NoDoc

Params(b) == IF b \in Recursive THEN <<"n">> ELSE <<"a", "b">>

\* Python's argument binding: positional arguments fill the parameters in
\* order, named arguments fill the rest; anything else is a TypeError.
KwValue(kw, n) == LET i == CHOOSE i \in 1..Len(kw) : kw[i][1] = n IN kw[i][2]

Bind(params, args, kw) ==
    LET named == {kw[i][1] : i \in 1..Len(kw)}
        ok == /\ Len(args) + Len(kw) = Len(params)
              /\ named = {params[i] : i \in (Len(args) + 1)..Len(params)}
    IN  [ok |-> ok,
         env |-> IF ok
                 THEN [i \in 1..Len(params) |->
                          IF i <= Len(args) THEN args[i]
                          ELSE KwValue(kw, params[i])]
                 ELSE <<>>]

Apply(b, x, y) ==
    CASE b = "foo" -> x + y
      [] b = "bar" -> x * y
      [] b = "sub" -> x - y

\* the value of fib at n <= 1: 1 in deco.py; n and 0 give falsy results
Leaf(b, n) ==
    CASE b = "fib" -> 1
      [] b = "fib0" -> n
      [] b = "fibz" -> 0

(* ----------------------------- layers --------------------------------- *)

BaseDict == 1

DictOf(l) == IF l = 0 THEN BaseDict ELSE wrappers[l].dict
KindOf(l) == IF l = 0 THEN "base" ELSE wrappers[l].kind
NameOf(l) == IF l = 0 THEN BaseName(base) ELSE wrappers[l].name
DocOf(l) == IF l = 0 THEN BaseDoc(base) ELSE wrappers[l].doc
Outermost == Len(wrappers)

WrapName(k) ==
    CASE k = "countcalls" -> "countcalls_wrap"
      [] k = "memo" -> "memo_wrap"
      [] k = "n_ary" -> "n_ary_wrap"
      [] k = "trace" -> "trace_wrap2"
      [] k = "decorator" -> "decorator_wrap"
      [] k = "disable" -> "disable_wrap"

\* variant: the wrapper gets a copy of f's dictionary
AssignDictCopy(heap, fd) == [heap |-> Append(heap, heap[fd]), d |-> Len(heap) + 1]

\* w.__dict__ = f.__dict__ : the wrapper's dictionary IS f's dictionary
AssignDict(heap, fd) == [heap |-> heap, d |-> fd]

\* variant: countcalls, too, initialises its attribute
InitAttrsCounter(k, d) ==
    CASE k = "memo" -> SetAttr(d, "cache", EmptyDict)
      [] k = "trace" -> SetAttr(d, "depth", 0)
      [] k = "countcalls" -> SetAttr(d, "calls", 0)
      [] OTHER -> d

\* the attribute a combinator sets on the wrapper right after construction
InitAttrs(k, d) ==
    CASE k = "memo" -> SetAttr(d, "cache", EmptyDict)
      [] k = "trace" -> SetAttr(d, "depth", 0)
      [] OTHER -> d

(* ------------------------------ frames -------------------------------- *)

Frame(l, args, kw) ==
    [layer |-> l, args |-> args, kw |-> kw, pc |-> "start", acc |-> <<>>]

Active == frames /= <<>>
Cur == frames[Len(frames)]
Popped == SubSeq(frames, 1, Len(frames) - 1)
PushCall(pc2, callee) ==
    Append([frames EXCEPT ![Len(frames)].pc = pc2,
                          ![Len(frames)].acc = callee.args], callee)
At(k, pc) == Active /\ KindOf(Cur.layer) = k /\ Cur.pc = pc
CurDict == dicts[DictOf(Cur.layer)]
Count(l) == [invoked EXCEPT ![l] = @ + 1]

(* --------------------------- initial state ---------------------------- *)

Init ==
    /\ base \in Bases
    /\ wrappers = <<>>
    /\ dicts = <<EmptyDict>>
    /\ frames = <<>>
    /\ ret = NoRet
    /\ out = <<>>
    /\ invoked = [l \in 0..MaxStack |-> 0]
    /\ mlog = <<>>
    /\ flog = <<>>
    /\ ncalls = 0
    /\ top = [layer |-> 0, args |-> <<>>, kw |-> <<>>, inv |-> invoked]

(* -------------------------- construction ------------------------------ *)

\* g = k(f), applied to the current outermost callable
Wrap(k) ==
    /\ ~Active
    /\ Len(wrappers) < MaxStack
    /\ LET r == AssignDict(dicts, DictOf(Outermost))
       IN  /\ wrappers' = Append(wrappers,
                  [kind |-> k, name |-> WrapName(k), doc |-> NoDoc, dict |-> r.d])
           /\ dicts' = [r.heap EXCEPT ![r.d] = InitAttrs(k, @)]
    /\ UNCHANGED <<base, frames, ret, out, invoked, mlog, flog, ncalls, top>>

(* ------------------------- top-level calls ---------------------------- *)

ArgLists == UNION {[1..n -> Vals] : n \in 0..MaxArgs}

\* named arguments, in call order, under distinct names
KwLists ==
    {<<>>}
    \cup {<<p, q>> : p \in {x \in KwNames \X Vals : TRUE},
                      q \in {x \in KwNames \X Vals : TRUE}}

\* g(*args, **kw) on the outermost wrapper g
Call(args, kw) ==
    /\ ~Active
    /\ ncalls < MaxCalls
    /\ wrappers /= <<>>
    /\ Len(args) + Len(kw) <= MaxArgs
    /\ \A i, j \in 1..Len(kw) : kw[i][1] = kw[j][1] => i = j
    /\ kw /= <<>> => args = <<>>
    /\ frames' = <<Frame(Outermost, args, kw)>>
    /\ ret' = NoRet
    /\ ncalls' = ncalls + 1
    /\ top' = [layer |-> Outermost, args |-> args, kw |-> kw, inv |-> invoked]
    /\ flog' = <<>>
    /\ UNCHANGED <<base, wrappers, dicts, out, invoked, mlog>>

(* --------------------------- the base body ---------------------------- *)

BaseCall ==
    /\ At("base", "start")
    /\ base \in Bases
    /\ LET b == Bind(Params(base), Cur.args, Cur.kw)
       IN  IF b.ok /\ None \notin {b.env[i] : i \in 1..Len(b.env)}
           THEN /\ ret' = Ret(Apply(base, b.env[1], b.env[2]))
                /\ invoked' = Count(0)
           ELSE /\ ret' = Raise("TypeError")
                /\ UNCHANGED invoked
    /\ frames' = Popped
    /\ UNCHANGED <<base, wrappers, dicts, out, mlog, flog, ncalls, top>>

(* ----------------------------- countcalls ----------------------------- *)

\* variant: the counter restarts from the default at every call
CountRestart(d) == SetAttr(d, "calls", 0 + 1)

\* countcalls_wrap.calls = getattr(countcalls_wrap, "calls", 0) + 1
CountIncrement(d) == SetAttr(d, "calls", GetAttr(d, "calls", 0) + 1)

\* variant: the increment is undone when f raises
CountRollback(d, r) ==
    IF r.kind = "error" THEN SetAttr(d, "calls", GetAttr(d, "calls", 0) - 1) ELSE d

\* return f(*args, **kwargs): the counter is not touched on the way out
CountOnReturn(d, r) == d

CountcallsEnter ==
    /\ At("countcalls", "start")
    /\ dicts' = [dicts EXCEPT ![DictOf(Cur.layer)] = CountIncrement(@)]
    /\ invoked' = Count(Cur.layer)
    /\ frames' = PushCall("wait", Frame(Cur.layer - 1, Cur.args, Cur.kw))
    /\ UNCHANGED <<base, wrappers, ret, out, mlog, flog, ncalls, top>>

CountcallsReturn ==
    /\ At("countcalls", "wait")
    /\ dicts' = [dicts EXCEPT ![DictOf(Cur.layer)] = CountOnReturn(@, ret)]
    /\ frames' = Popped
    /\ UNCHANGED <<base, wrappers, ret, out, invoked, mlog, flog, ncalls, top>>

(* -------------------------------- memo -------------------------------- *)

\* variant: the key holds the argument values in sorted order
MemoKeySorted(args, kw) ==
    SortSeq(args \o [i \in 1..Len(kw) |-> kw[i][2]], LAMBDA x, y : x < y)

\* key = args + tuple(kwargs.values())
MemoKey(args, kw) == args \o [i \in 1..Len(kw) |-> kw[i][2]]

\* val = cache.get(key, None); if not val: ...
MemoMiss(cache, key) == key \notin DOMAIN cache \/ cache[key] \in {0, None}

MemoEvent(f, kind, v) ==
    [layer |-> f.layer, key |-> MemoKey(f.args, f.kw), args |-> f.args,
     kw |-> f.kw, kind |-> kind, val |-> v]

MemoEnter ==
    /\ At("memo", "start")
    /\ invoked' = Count(Cur.layer)
    /\ LET key == MemoKey(Cur.args, Cur.kw)
           cache == CurDict["cache"]
       IN  IF MemoMiss(cache, key)
           THEN /\ frames' = PushCall("wait", Frame(Cur.layer - 1, Cur.args, Cur.kw))
                /\ UNCHANGED <<ret, mlog, flog>>
           ELSE /\ frames' = Popped
                /\ ret' = Ret(cache[key])
                /\ mlog' = Append(mlog, MemoEvent(Cur, "hit", cache[key]))
    /\ UNCHANGED <<base, wrappers, dicts, out, flog, ncalls, top>>

\* variant: a failure of f is remembered as None under the key
MemoReturnStoresError ==
    /\ At("memo", "wait")
    /\ LET key == MemoKey(Cur.args, Cur.kw)
           cache == CurDict["cache"]
       IN  /\ dicts' = [dicts EXCEPT ![DictOf(Cur.layer)] =
                            SetAttr(@, "cache",
                                SetAttr(cache, key,
                                    IF ret.kind = "value" THEN ret.val ELSE None))]
           /\ mlog' = Append(mlog, MemoEvent(Cur,
                          IF ret.kind = "value" THEN "miss" ELSE "raise",
                          IF ret.kind = "value" THEN ret.val ELSE 0))
    /\ frames' = Popped
    /\ UNCHANGED <<base, wrappers, ret, out, invoked, flog, ncalls, top>>

MemoReturn ==
    /\ At("memo", "wait")
    /\ LET key == MemoKey(Cur.args, Cur.kw)
           cache == CurDict["cache"]
       IN  IF ret.kind = "value"
           THEN /\ dicts' = [dicts EXCEPT ![DictOf(Cur.layer)] =
                                SetAttr(@, "cache", SetAttr(cache, key, ret.val))]
                /\ mlog' = Append(mlog, MemoEvent(Cur, "miss", ret.val))
           ELSE /\ mlog' = Append(mlog, MemoEvent(Cur, "raise", 0))
                /\ UNCHANGED dicts
    /\ frames' = Popped
    /\ UNCHANGED <<base, wrappers, ret, out, invoked, flog, ncalls, top>>

(* ------------------------------- n_ary -------------------------------- *)

\* variant: args[:-1], the last argument dropped instead of the first
RestButLast(args) == IF args = <<>> THEN <<>> ELSE SubSeq(args, 1, Len(args) - 1)

\* args[1:]
Rest(args) == IF args = <<>> THEN <<>> ELSE Tail(args)

\* variant: the recursive call is made before args[0] is evaluated
HeadDeferred(args) == FALSE

\* in f(args[0], n_ary_wrap(*args[1:])) the operand args[0] is evaluated
\* before the recursive call is made, and raises IndexError on ()
HeadRaises(args) == Len(args) = 0

\* variant: the operands of f the other way round
FoldOperandsSwapped(args, rest) == <<rest, args[1]>>

\* the operands of f in f(args[0], n_ary_wrap(*args[1:]))
FoldOperands(args, rest) == <<args[1], rest>>

NaryEnter ==
    /\ At("n_ary", "start")
    /\ IF Cur.kw /= <<>>
       THEN /\ frames' = Popped
            /\ ret' = Raise("TypeError")
            /\ UNCHANGED invoked
       ELSE /\ invoked' = Count(Cur.layer)
            /\ IF Len(Cur.args) = 1
               THEN /\ frames' = Popped
                    /\ ret' = Ret(Cur.args[1])
               ELSE IF Len(Cur.args) = 2
               THEN /\ frames' = PushCall("wait",
                           Frame(Cur.layer - 1, <<Cur.args[1], Cur.args[2]>>, <<>>))
                    /\ UNCHANGED ret
               ELSE IF HeadRaises(Cur.args)
               THEN /\ frames' = Popped
                    /\ ret' = Raise("IndexError")
               ELSE /\ frames' = PushCall("rec", Frame(Cur.layer, Rest(Cur.args), <<>>))
                    /\ UNCHANGED ret
    /\ UNCHANGED <<base, wrappers, dicts, out, mlog, flog, ncalls, top>>

NaryRec ==
    /\ At("n_ary", "rec")
    /\ IF ret.kind = "value"
       THEN /\ frames' = PushCall("wait",
                   Frame(Cur.layer - 1, FoldOperands(Cur.args, ret.val), <<>>))
            /\ ret' = NoRet
       ELSE /\ frames' = Popped
            /\ UNCHANGED ret
    /\ UNCHANGED <<base, wrappers, dicts, out, invoked, mlog, flog, ncalls, top>>

NaryReturn ==
    /\ At("n_ary", "wait")
    /\ frames' = Popped
    /\ flog' = Append(flog, [layer |-> Cur.layer, x |-> Cur.acc[1],
                              y |-> Cur.acc[2], r |-> ret])
    /\ UNCHANGED <<base, wrappers, dicts, ret, out, invoked, mlog, ncalls, top>>

(* ------------------------------- trace -------------------------------- *)

Line(n, dir, name, args, r) ==
    [indent |-> n, dir |-> dir, name |-> name, args |-> args, res |-> r]

TraceEnter ==
    /\ At("trace", "start")
    /\ invoked' = Count(Cur.layer)
    /\ out' = Append(out, Line(CurDict["depth"], "-->", NameOf(Cur.layer - 1),
                               Cur.args, 0))
    /\ dicts' = [dicts EXCEPT ![DictOf(Cur.layer)] =
                    SetAttr(@, "depth", @["depth"] + 1)]
    /\ frames' = PushCall("wait", Frame(Cur.layer - 1, Cur.args, Cur.kw))
    /\ UNCHANGED <<base, wrappers, ret, mlog, flog, ncalls, top>>

\* variant: the exit line is not printed
TraceReturnNoExit ==
    /\ At("trace", "wait")
    /\ IF ret.kind = "value"
       THEN dicts' = [dicts EXCEPT ![DictOf(Cur.layer)] =
                         SetAttr(@, "depth", @["depth"] - 1)]
       ELSE UNCHANGED dicts
    /\ frames' = Popped
    /\ UNCHANGED <<base, wrappers, ret, out, invoked, mlog, flog, ncalls, top>>

\* variant: the result is printed but not returned
TraceReturnNoResult ==
    /\ At("trace", "wait")
    /\ IF ret.kind = "value"
       THEN /\ dicts' = [dicts EXCEPT ![DictOf(Cur.layer)] =
                            SetAttr(@, "depth", @["depth"] - 1)]
            /\ out' = Append(out, Line(CurDict["depth"] - 1, "<--",
                                       NameOf(Cur.layer - 1), Cur.args, ret.val))
            /\ ret' = Ret(None)
       ELSE UNCHANGED <<dicts, out, ret>>
    /\ frames' = Popped
    /\ UNCHANGED <<base, wrappers, invoked, mlog, flog, ncalls, top>>

TraceReturn ==
    /\ At("trace", "wait")
    /\ IF ret.kind = "value"
       THEN /\ dicts' = [dicts EXCEPT ![DictOf(Cur.layer)] =
                            SetAttr(@, "depth", @["depth"] - 1)]
            /\ out' = Append(out, Line(CurDict["depth"] - 1, "<--",
                                       NameOf(Cur.layer - 1), Cur.args, ret.val))
       ELSE UNCHANGED <<dicts, out>>
    /\ frames' = Popped
    /\ UNCHANGED <<base, wrappers, ret, invoked, mlog, flog, ncalls, top>>

(* ------------------------- decorator, disable ------------------------- *)

\* variant: the wrapper takes over f's dictionary, as the combinators do
OwnDictShared(heap, fd) == [heap |-> heap, d |-> fd]

\* decorator_wrap and disable_wrap are new functions whose __dict__ is
\* never assigned: each has an empty dictionary of its own
OwnDict(heap, fd) == [heap |-> Append(heap, EmptyDict), d |-> Len(heap) + 1]

\* f(*args, **kwargs)
PasserEnter ==
    /\ Active /\ KindOf(Cur.layer) \in Passers /\ Cur.pc = "start"
    /\ invoked' = Count(Cur.layer)
    /\ frames' = PushCall("wait", Frame(Cur.layer - 1, Cur.args, Cur.kw))
    /\ UNCHANGED <<base, wrappers, dicts, ret, out, mlog, flog, ncalls, top>>

\* the body ends without a return statement: the caller gets None
PasserReturn ==
    /\ Active /\ KindOf(Cur.layer) \in Passers /\ Cur.pc = "wait"
    /\ ret' = IF ret.kind = "value" THEN Ret(None) ELSE ret
    /\ frames' = Popped
    /\ UNCHANGED <<base, wrappers, dicts, out, invoked, mlog, flog, ncalls, top>>

(* ---------------------- the body of fib (recursive) ------------------- *)

\* variant: the body calls the callable below the outermost wrapper
FibCalleeInner == Outermost - 1

\* the global name fib is bound to the outermost wrapper
FibCallee == Outermost

\* return 1 if n <= 1 else fib(n-1) + fib(n-2)
FibEnter ==
    /\ At("base", "start")
    /\ base \in Recursive
    /\ LET b == Bind(Params(base), Cur.args, Cur.kw)
       IN  IF ~b.ok \/ b.env[1] = None
           THEN /\ ret' = Raise("TypeError")
                /\ frames' = Popped
                /\ UNCHANGED invoked
           ELSE /\ invoked' = Count(0)
                /\ IF b.env[1] <= 1
                   THEN /\ ret' = Ret(Leaf(base, b.env[1]))
                        /\ frames' = Popped
                   ELSE /\ frames' = Append(
                               [frames EXCEPT ![Len(frames)].pc = "first",
                                              ![Len(frames)].acc = <<b.env[1]>>],
                               Frame(FibCallee, <<b.env[1] - 1>>, <<>>))
                        /\ UNCHANGED ret
    /\ UNCHANGED <<base, wrappers, dicts, out, mlog, flog, ncalls, top>>

\* fib(n-1) has ended; the right operand fib(n-2) is evaluated next
FibFirst ==
    /\ At("base", "first")
    /\ IF ret.kind = "value"
       THEN /\ frames' = Append(
                   [frames EXCEPT ![Len(frames)].pc = "second",
                                  ![Len(frames)].acc = <<Cur.acc[1], ret.val>>],
                   Frame(FibCallee, <<Cur.acc[1] - 2>>, <<>>))
            /\ ret' = NoRet
       ELSE /\ frames' = Popped
            /\ UNCHANGED ret
    /\ UNCHANGED <<base, wrappers, dicts, out, invoked, mlog, flog, ncalls, top>>

\* fib(n-2) has ended; the sum is returned
FibSecond ==
    /\ At("base", "second")
    /\ IF ret.kind = "value" /\ None \notin {Cur.acc[2], ret.val}
       THEN ret' = Ret(Cur.acc[2] + ret.val)
       ELSE IF ret.kind = "value"
       THEN ret' = Raise("TypeError")
       ELSE UNCHANGED ret
    /\ frames' = Popped
    /\ UNCHANGED <<base, wrappers, dicts, out, invoked, mlog, flog, ncalls, top>>

(* --------------------------- specification ---------------------------- *)

Next ==
    \/ \E k \in Kinds : Wrap(k)
    \/ \E args \in ArgLists, kw \in KwLists : Call(args, kw)
    \/ BaseCall
    \/ CountcallsEnter
    \/ CountcallsReturn
    \/ MemoEnter
    \/ MemoReturn
    \/ NaryEnter
    \/ NaryRec
    \/ NaryReturn
    \/ TraceEnter
    \/ TraceReturn

Spec == Init /\ [][Next]_vars

\* countcalls alone, stacked on the underlying function
WrapCountcalls == Wrap("countcalls")

NextCount ==
    \/ WrapCountcalls
    \/ \E args \in ArgLists, kw \in KwLists : Call(args, kw)
    \/ BaseCall
    \/ CountcallsEnter
    \/ CountcallsReturn

SpecCount == Init /\ [][NextCount]_vars

\* n_ary alone, stacked on the underlying function
WrapNary == Wrap("n_ary")

NextNary ==
    \/ WrapNary
    \/ \E args \in ArgLists, kw \in KwLists : Call(args, kw)
    \/ BaseCall
    \/ NaryEnter
    \/ NaryRec
    \/ NaryReturn

SpecNary == Init /\ [][NextNary]_vars

\* every combinator, called as g(1, ..., 1)
CallOnes == \E n \in 0..MaxArgs : Call([i \in 1..n |-> 1], <<>>)

NextShare ==
    \/ \E k \in Kinds : Wrap(k)
    \/ CallOnes
    \/ BaseCall
    \/ CountcallsEnter
    \/ CountcallsReturn
    \/ MemoEnter
    \/ MemoReturn
    \/ NaryEnter
    \/ NaryRec
    \/ NaryReturn
    \/ TraceEnter
    \/ TraceReturn

SpecShare == Init /\ [][NextShare]_vars

(* ------------------- stacks built when the module loads --------------- *)

\* g = k(f) on the stack st built so far around b
Decorate(b, st, k) ==
    LET n == Len(st.wrappers)
        fd == IF n = 0 THEN BaseDict ELSE st.wrappers[n].dict
        fdoc == IF n = 0 THEN BaseDoc(b) ELSE st.wrappers[n].doc
        r == IF k \in Passers THEN OwnDict(st.dicts, fd) ELSE AssignDict(st.dicts, fd)
    IN  [wrappers |-> Append(st.wrappers,
                          [kind |-> k, name |-> WrapName(k),
                           doc |-> IF k = "decorator" THEN fdoc ELSE NoDoc,
                           dict |-> r.d]),
         dicts |-> [r.heap EXCEPT ![r.d] = InitAttrs(k, @)]]

\* @ks[n] ... @ks[1] def b: the decorators are applied innermost first
RECURSIVE Stacked(_, _)
Stacked(b, ks) ==
    IF ks = <<>>
    THEN [wrappers |-> <<>>, dicts |-> <<EmptyDict>>]
    ELSE Decorate(b, Stacked(b, SubSeq(ks, 1, Len(ks) - 1)), ks[Len(ks)])

\* the state right after b has been defined under the decorators ks
Loaded(b, ks) ==
    /\ base = b
    /\ wrappers = Stacked(b, ks).wrappers
    /\ dicts = Stacked(b, ks).dicts
    /\ frames = <<>>
    /\ ret = NoRet
    /\ out = <<>>
    /\ invoked = [l \in 0..Len(ks) |-> 0]
    /\ mlog = <<>>
    /\ flog = <<>>
    /\ ncalls = 0
    /\ top = [layer |-> 0, args |-> <<>>, kw |-> <<>>, inv |-> [l \in 0..Len(ks) |-> 0]]

\* a call statement of the caller: wrapper l is called with args and kw
Enter(l, args, kw) ==
    /\ frames' = <<Frame(l, args, kw)>>
    /\ ret' = NoRet
    /\ ncalls' = ncalls + 1
    /\ top' = [layer |-> l, args |-> args, kw |-> kw, inv |-> invoked]
    /\ flog' = <<>>
    /\ UNCHANGED <<base, wrappers, dicts, out, invoked, mlog>>

(* ------------------------- main(): foo, bar, fib ---------------------- *)

MainFns == {"foo", "bar", "fib"}

MainStack(b) ==
    CASE b = "foo" -> <<"countcalls", "memo", "n_ary">>
      [] b = "bar" -> <<"countcalls", "n_ary", "memo">>
      [] b = "fib" -> <<"countcalls", "memo", "trace">>

Script(b) ==
    CASE b = "foo" -> << <<4, 3, 2>>, <<4, 3>>, <<4>> >>
      [] b = "bar" -> << <<4, 3>>, <<4, 3, 2>>, <<4, 3, 2, 1>> >>
      [] b = "fib" -> << <<6>> >>

InitMain == \E b \in MainFns : Loaded(b, MainStack(b))

\* the next call statement of main() on the function
MainCall ==
    /\ ~Active
    /\ base \in MainFns
    /\ ncalls < Len(Script(base))
    /\ Enter(Outermost, Script(base)[ncalls + 1], <<>>)

NextMain ==
    \/ MainCall
    \/ BaseCall
    \/ FibEnter
    \/ FibFirst
    \/ FibSecond
    \/ CountcallsEnter
    \/ CountcallsReturn
    \/ MemoEnter
    \/ MemoReturn
    \/ NaryEnter
    \/ NaryRec
    \/ NaryReturn
    \/ TraceEnter
    \/ TraceReturn

SpecMain == InitMain /\ [][NextMain]_vars

(* ------------------- fib under stacks of decorators ------------------- *)

FibStacks ==
    {<<"countcalls">>, <<"countcalls", "memo">>,
     <<"countcalls", "memo", "trace">>, <<"trace">>}

InitFib == \E b \in Recursive, ks \in FibStacks : Loaded(b, ks)

\* fib(n)
CallFib == \E n \in 0..MaxN : Call(<<n>>, <<>>)

NextFib ==
    \/ CallFib
    \/ FibEnter
    \/ FibFirst
    \/ FibSecond
    \/ CountcallsEnter
    \/ CountcallsReturn
    \/ MemoEnter
    \/ MemoReturn
    \/ TraceEnter
    \/ TraceReturn

SpecFib == InitFib /\ [][NextFib]_vars

(* ------------- decorator and disable, alone and between traces -------- *)

PassStacks ==
    {<<"decorator">>, <<"disable">>,
     <<"trace", "decorator", "trace">>, <<"trace", "disable", "trace">>}

InitPass == \E b \in Bases, ks \in PassStacks : Loaded(b, ks)

\* g(1, ..., 1), g(a=1, b=0) and g(1, b=0)
PassInputs ==
    {[args |-> [i \in 1..n |-> 1], kw |-> <<>>] : n \in 0..MaxArgs}
    \cup {[args |-> <<>>, kw |-> << <<"a", 1>>, <<"b", 0>> >>],
          [args |-> <<1>>, kw |-> << <<"b", 0>> >>]}

\* any of the wrappers is called by the caller
CallAny ==
    /\ ~Active
    /\ ncalls < MaxCalls
    /\ \E l \in 1..Outermost, in \in PassInputs : Enter(l, in.args, in.kw)

NextPass ==
    \/ CallAny
    \/ BaseCall
    \/ PasserEnter
    \/ PasserReturn
    \/ TraceEnter
    \/ TraceReturn

SpecPass == InitPass /\ [][NextPass]_vars

(* ------------------- memo called with positional arguments ----------- *)

MemoStacks == {<<"memo">>, <<"countcalls", "memo">>}

InitMemo == \E b \in Bases, ks \in MemoStacks : Loaded(b, ks)

\* g(x1, ..., xn)
CallPositional == \E args \in ArgLists : Call(args, <<>>)

NextMemo ==
    \/ CallPositional
    \/ BaseCall
    \/ CountcallsEnter
    \/ CountcallsReturn
    \/ MemoEnter
    \/ MemoReturn

SpecMemo == InitMemo /\ [][NextMemo]_vars

(* ============================ properties ============================== *)

Layers(k) == {l \in 1..Len(wrappers) : wrappers[l].kind = k}
Only(k, l) == Layers(k) = {l}
Completed == ~Active /\ ret.kind /= "none"
Counter(l) == GetAttr(dicts[DictOf(l)], "calls", 0)
CacheOf(l) == dicts[DictOf(l)]["cache"]
DepthOf(l) == dicts[DictOf(l)]["depth"]
\* g.calls read through wrapper l (None stands for AttributeError)
ReadCalls(l) ==
    IF "calls" \in DOMAIN dicts[DictOf(l)] THEN dicts[DictOf(l)]["calls"] ELSE None

\* C1: with one memo wrapper g in the stack, once f has computed a result
\* for a key (falsy or not), every later lookup of that key is a hit that
\* returns that result, so f is invoked at most once per key.
MemoInvokesOncePerKey ==
    \A m \in Layers("memo") : Only("memo", m) =>
        \A i, j \in 1..Len(mlog) :
            (i < j /\ mlog[i].key = mlog[j].key /\ mlog[i].kind = "miss")
                => (mlog[j].kind = "hit" /\ mlog[j].val = mlog[i].val)

\* C2: whenever every call has unwound, returning or raising, the depth of
\* a trace wrapper is back to 0, so the next top-level call is printed with
\* no indentation.
TraceDepthRestored ==
    \A t \in Layers("trace") : ~Active => DepthOf(t) = 0

\* C3: every wrapper in a chain carries the name and the documentation of
\* the innermost function, and trace prints that name.
WrapperKeepsNameAndDoc ==
    /\ \A l \in 1..Len(wrappers) :
           NameOf(l) = BaseName(base) /\ DocOf(l) = BaseDoc(base)
    /\ \A i \in 1..Len(out) : out[i].name = BaseName(base)

\* C4: the counter of g = countcalls(f) equals the number of calls made to
\* g, the raising ones included: it is incremented before f runs, and when
\* f raises the error goes on to the caller with the counter left as it is.
CountEqualsAttempts ==
    \A c \in Layers("countcalls") : Only("countcalls", c) =>
        /\ Counter(c) = invoked[c]
        /\ \A i \in 1..Len(frames) :
               (frames[i].layer = c /\ frames[i].pc = "wait") => Counter(c) >= 1

ErrorPassesCounter ==
    \A c \in 1..Len(wrappers) :
        (At("countcalls", "wait") /\ Cur.layer = c /\ ret.kind = "error")
            => /\ ret' = ret
               /\ frames' = Popped
               /\ Counter(c)' = Counter(c)

CountcallsCountsAttempts == [] CountEqualsAttempts /\ [][ErrorPassesCounter]_vars

CountcallsCountedARaise ==
    /\ Completed /\ ret.kind = "error"
    /\ Only("countcalls", Outermost) /\ top.layer = Outermost
    /\ ncalls = 2 /\ Counter(Outermost) = 2 /\ invoked[0] = 1

\* C5: right after g = countcalls(f), before any call, g.calls can be read
\* and is 0.
CounterStartsAtZero ==
    \A c \in Layers("countcalls") :
        invoked[c] = 0 =>
            /\ "calls" \in DOMAIN dicts[DictOf(c)]
            /\ dicts[DictOf(c)]["calls"] = 0

\* C5 as amended: the only countcalls wrapper of a stack has no attribute
\* calls until it is called for the first time (reading g.calls fails);
\* the first call creates it with value 1, the absent counter counting as 0.
CounterAbsentUntilFirstCall ==
    \A c \in Layers("countcalls") : Only("countcalls", c) =>
        /\ invoked[c] = 0 => "calls" \notin DOMAIN dicts[DictOf(c)]
        /\ invoked[c] = 1 =>
               ("calls" \in DOMAIN dicts[DictOf(c)] /\ dicts[DictOf(c)]["calls"] = 1)

CounterAbsentAfterWrap ==
    /\ ~Active /\ Only("countcalls", 1) /\ Outermost = 2
    /\ invoked[1] = 0 /\ invoked[2] = 1
    /\ "calls" \notin DOMAIN dicts[DictOf(1)]

\* C6: all wrappers around one function have the very same attribute
\* dictionary as that function, so the counter read through any wrapper
\* above the countcalls wrapper is the number of times that wrapper ran.
SharedStateBag ==
    /\ \A l \in 1..Len(wrappers) : DictOf(l) = DictOf(0)
    /\ \A c \in Layers("countcalls") : Only("countcalls", c) =>
           \A l \in c..Len(wrappers) : Counter(l) = invoked[c]

CounterSeenThroughOuter ==
    \E c \in Layers("countcalls") :
        /\ ~Active /\ Only("countcalls", c) /\ c < Outermost
        /\ top.layer = Outermost
        /\ invoked[c] = 2
        /\ "calls" \in DOMAIN dicts[DictOf(Outermost)]
        /\ dicts[DictOf(Outermost)]["calls"] = 2

\* C7: a finished call g(a1, ..., an), n >= 1, of g = n_ary(f) returns a1
\* for n = 1 without calling f, and otherwise calls f exactly n-1 times, as
\* f(a[n-1], a[n]), then f(a[n-2], that result), ..., and returns the last
\* result: the right fold of f over the arguments.
RECURSIVE FoldRight(_, _)
FoldRight(b, args) ==
    IF Len(args) = 1 THEN args[1]
    ELSE Apply(b, args[1], FoldRight(b, Tail(args)))

NaryIsRightFold ==
    (Completed /\ KindOf(top.layer) = "n_ary" /\ top.kw = <<>> /\ Len(top.args) >= 1)
    => LET n == Len(top.args)
           Mine(e) == e.layer = top.layer
           calls == SelectSeq(flog, Mine)
       IN  /\ ret.kind = "value"
           /\ Len(calls) = n - 1
           /\ n = 1 => /\ ret.val = top.args[1]
                       /\ \A l \in 0..(top.layer - 1) : invoked[l] = top.inv[l]
           /\ \A k \in 1..(n - 1) :
                  /\ calls[k].r.kind = "value"
                  /\ calls[k].x = top.args[n - k]
                  /\ calls[k].y = IF k = 1 THEN top.args[n] ELSE calls[k - 1].r.val
           /\ n >= 2 => ret.val = calls[n - 1].r.val
           /\ (\A l \in 1..top.layer : KindOf(l) = "n_ary")
                  => ret.val = FoldRight(base, top.args)

NaryFoldedThree ==
    /\ Completed /\ KindOf(top.layer) = "n_ary" /\ top.layer = 1
    /\ base = "sub" /\ top.args = <<1, 0, 1>> /\ ret = Ret(2)
    /\ Len(flog) = 2

\* C8: g() for g = n_ary(f) ends at once in an error handed to the caller:
\* no value is returned, f is not called and g does not call itself.
NaryNoArgsRaises ==
    /\ \A i \in 1..Len(frames) :
           (KindOf(frames[i].layer) = "n_ary" /\ frames[i].args = <<>>)
               => frames[i].pc = "start"
    /\ (Completed /\ KindOf(top.layer) = "n_ary" /\ top.args = <<>> /\ top.kw = <<>>)
           => /\ ret.kind = "error"
              /\ flog = <<>>
              /\ \A l \in 0..(top.layer - 1) : invoked[l] = top.inv[l]

NaryNoArgsRaised ==
    /\ Completed /\ KindOf(top.layer) = "n_ary"
    /\ top.args = <<>> /\ top.kw = <<>>
    /\ ret = Raise("IndexError")

\* C9: with one memo wrapper in the stack, a call whose argument values, in
\* call order, equal those of an earlier computed call, but which passes
\* them under other names or positionally instead of by name, returns the
\* earlier call's result without calling f.
MemoKeyIgnoresNames ==
    \A m \in Layers("memo") : Only("memo", m) =>
        \A i, j \in 1..Len(mlog) :
            (/\ i < j
             /\ mlog[i].key = mlog[j].key
             /\ (mlog[i].args /= mlog[j].args \/ mlog[i].kw /= mlog[j].kw)
             /\ mlog[i].kind = "miss")
                => (mlog[j].kind = "hit" /\ mlog[j].val = mlog[i].val)

\* C10: the cache of a memo wrapper g changes only in steps of g's own
\* calls: no construction of another wrapper and no call of another wrapper
\* adds, replaces or clears its entries.
MemoCacheChangedOnlyBy(m) ==
    (~Active \/ Cur.layer /= m) => CacheOf(m)' = CacheOf(m)

MemoCachePrivate ==
    [][\A m \in Layers("memo") : MemoCacheChangedOnlyBy(m)]_vars

\* C14: foo is a + b under countcalls, then memo, then n_ary (outermost).
\* On the fresh wrapper foo(4, 3, 2), foo(4, 3), foo(4) return 9, 7 and 4
\* in that order, and foo.calls read after the three calls is 3.
FooScenario ==
    (base = "foo" /\ Completed) =>
        /\ top.args = Script("foo")[ncalls]
        /\ ncalls = 1 => ret = Ret(9)
        /\ ncalls = 2 => ret = Ret(7)
        /\ ncalls = 3 => (ret = Ret(4) /\ ReadCalls(Outermost) = 3)

FooScenarioDone ==
    /\ base = "foo" /\ Completed /\ ncalls = 3
    /\ [i \in 1..3 |-> wrappers[i].kind] = <<"countcalls", "memo", "n_ary">>
    /\ top.args = <<4>> /\ ret = Ret(4)
    /\ ReadCalls(3) = 3 /\ invoked[0] = 3

\* C15: bar is a * b under countcalls, then n_ary, then memo (outermost),
\* so the generalisation sits inside the memoisation.  On the fresh wrapper
\* bar(4, 3), bar(4, 3, 2), bar(4, 3, 2, 1) return 12, 24 and 24 in order.
BarScenario ==
    (base = "bar" /\ Completed) =>
        /\ top.args = Script("bar")[ncalls]
        /\ ncalls = 1 => ret = Ret(12)
        /\ ncalls = 2 => ret = Ret(24)
        /\ ncalls = 3 => ret = Ret(24)

BarScenarioDone ==
    /\ base = "bar" /\ Completed /\ ncalls = 3
    /\ [i \in 1..3 |-> wrappers[i].kind] = <<"countcalls", "n_ary", "memo">>
    /\ top.args = <<4, 3, 2, 1>> /\ ret = Ret(24)
    /\ <<4, 3, 2, 1>> \in DOMAIN CacheOf(3) /\ CacheOf(3)[<<4, 3, 2, 1>>] = 24

\* C11: for a traced function whose recursive calls go through the wrapper
\* and all return, the wrapper has printed one enter line per invocation
\* and one exit line per invocation that has returned, so that after the
\* top-level call the number of lines is twice the number of invocations;
\* the depth is never negative.
Lines(dir) == Cardinality({i \in 1..Len(out) : out[i].dir = dir})
InProgress(t) ==
    Cardinality({i \in 1..Len(frames) : frames[i].layer = t /\ frames[i].pc = "wait"})

TraceTwoLinesPerCall ==
    /\ \A t \in Layers("trace") : DepthOf(t) >= 0
    /\ \A t \in Layers("trace") : Only("trace", t) =>
           /\ Lines("-->") = invoked[t]
           /\ Lines("<--") = invoked[t] - InProgress(t)
           /\ ~Active => Len(out) = 2 * invoked[t]

TracedFibSix ==
    /\ base = "fib" /\ Completed /\ ncalls = 1 /\ top.args = <<6>>
    /\ Only("trace", 1) /\ Outermost = 1
    /\ invoked[1] = 25 /\ Len(out) = 50 /\ ret = Ret(13)

\* C12: with one trace wrapper, the depth is the number of its calls in
\* progress (0 when no call is active); a call entered at depth d prints
\* its enter line with d indent tokens and its exit line with d again, and
\* the lines of calls made from inside it lie between the two, at d + 1 or
\* deeper: enter and exit lines nest like brackets.
Open(i) ==
    Cardinality({j \in 1..i : out[j].dir = "-->"})
        - Cardinality({j \in 1..i : out[j].dir = "<--"})

Matching(i) ==
    CHOOSE j \in 0..(i - 1) :
        \/ j = 0 /\ \A k \in 1..(i - 1) : ~(out[k].dir = "-->" /\ Open(k) = Open(i - 1))
        \/ /\ j > 0 /\ out[j].dir = "-->" /\ Open(j) = Open(i - 1)
           /\ \A k \in (j + 1)..(i - 1) : Open(k) >= Open(j)

TraceDepthMachine ==
    \A t \in Layers("trace") : Only("trace", t) =>
        /\ DepthOf(t) = InProgress(t)
        /\ ~Active => DepthOf(t) = 0
        /\ \A i \in 1..Len(out) :
               /\ out[i].dir = "-->" => out[i].indent = Open(i - 1)
               /\ out[i].dir = "<--" =>
                      /\ Open(i - 1) >= 1
                      /\ Matching(i) > 0
                      /\ out[i].indent = out[Matching(i)].indent
                      /\ out[i].args = out[Matching(i)].args
                      /\ out[i].indent = Open(i)

\* C16: tracing is transparent.  For fib under memo over countcalls, with
\* or without trace on the outside, the first call fib(n) on a fresh
\* wrapper returns the same value (13 for n = 6) and leaves the same call
\* counter (7 for n = 6); without trace nothing is printed.
RECURSIVE FibValue(_, _)
FibValue(b, n) ==
    IF n <= 1 THEN Leaf(b, n) ELSE FibValue(b, n - 1) + FibValue(b, n - 2)

RECURSIVE PlainCalls(_)
PlainCalls(n) == IF n <= 1 THEN 1 ELSE 1 + PlainCalls(n - 1) + PlainCalls(n - 2)

\* calls that reach countcalls below memo: one per argument in 0..n, or
\* all of them when every result is falsy
MemoCalls(b, n) ==
    IF b = "fibz" THEN PlainCalls(n) ELSE IF n <= 1 THEN 1 ELSE n + 1

KindsOfStack == [i \in 1..Len(wrappers) |-> wrappers[i].kind]

TraceTransparent ==
    (/\ Completed /\ ncalls = 1
     /\ KindsOfStack \in {<<"countcalls", "memo">>, <<"countcalls", "memo", "trace">>})
    => /\ ret = Ret(FibValue(base, top.args[1]))
       /\ ReadCalls(Outermost) = MemoCalls(base, top.args[1])
       /\ ReadCalls(1) = invoked[1]
       /\ Outermost = 2 => out = <<>>
       /\ Outermost = 3 => Len(out) = 2 * invoked[3]

TracedMemoFibSix ==
    /\ base = "fib" /\ Completed /\ ncalls = 1 /\ top.args = <<6>>
    /\ KindsOfStack = <<"countcalls", "memo", "trace">>
    /\ ret = Ret(13) /\ ReadCalls(3) = 7 /\ Len(out) = 22

\* C17: for fib recursing through its outermost binding, a call fib(n)
\* under countcalls alone adds PlainCalls(n) to the counter, and the same
\* call under memo over countcalls never adds more, also when results are
\* falsy (leaf values 0).
CountedBy(c) == invoked[c] - top.inv[c]

MemoNeverCountsMore ==
    (Completed /\ ret.kind = "value") =>
        /\ KindsOfStack = <<"countcalls">> =>
               /\ CountedBy(1) = PlainCalls(top.args[1])
               /\ ReadCalls(1) = invoked[1]
        /\ KindsOfStack = <<"countcalls", "memo">> =>
               /\ CountedBy(1) <= PlainCalls(top.args[1])
               /\ ReadCalls(2) = invoked[1]

MemoSavedCallsWithFalsy ==
    /\ base = "fib0" /\ Completed /\ ncalls = 1 /\ top.args = <<6>>
    /\ KindsOfStack = <<"countcalls", "memo">>
    /\ CacheOf(2)[<<0>>] = 0
    /\ ReadCalls(2) = 7 /\ PlainCalls(6) = 25

\* C13: the depth belongs to the traced function.  Two trace wrappers
\* with a function of its own between them (decorator_wrap, disable_wrap)
\* trace two different functions: both depths start at 0, and no step of a
\* call of one wrapper, also one made from inside a call of the other,
\* changes the depth of the other.
TracedApart(t, u) ==
    /\ t \in Layers("trace") /\ u \in Layers("trace") /\ t < u
    /\ \E p \in (t + 1)..(u - 1) : KindOf(p) \in Passers

DepthsStartAtZero ==
    ncalls = 0 => \A t \in Layers("trace") : DepthOf(t) = 0

DepthKeptByOther ==
    \A t, u \in 1..Len(wrappers) :
        (TracedApart(t, u) /\ Active) =>
            /\ Cur.layer = t => dicts'[DictOf(u)]["depth"] = DepthOf(u)
            /\ Cur.layer = u => dicts'[DictOf(t)]["depth"] = DepthOf(t)

TraceDepthPerFunction == [] DepthsStartAtZero /\ [][DepthKeptByOther]_vars

InnerTracedInsideOuter ==
    /\ TracedApart(1, 3) /\ top.layer = 3
    /\ Active /\ Len(frames) = 2 /\ Cur.layer = 2 /\ Cur.pc = "wait"
    /\ ret.kind = "value"
    /\ DepthOf(3) = 1 /\ DepthOf(1) = 0
    /\ Lines("-->") = 2 /\ Lines("<--") = 1

\* C18: g = decorator(f) has f's documentation, and a call of g calls f
\* once with the same positional and named arguments and hands whatever f
\* returns or raises on to g's caller.
DecoratorKeepsDoc == \A g \in Layers("decorator") : DocOf(g) = DocOf(g - 1)

DecoratorDelegates ==
    \A g \in 1..Len(wrappers) :
        (KindOf(g) = "decorator" /\ Active /\ Cur.layer = g) =>
            /\ Cur.pc = "start" =>
                   frames' = PushCall("wait", Frame(g - 1, Cur.args, Cur.kw))
            /\ Cur.pc = "wait" => (ret' = ret /\ frames' = Popped)

DecoratorPassesThrough == [] DecoratorKeepsDoc /\ [][DecoratorDelegates]_vars

\* C19: for g = memo(f) called with positional arguments, every value g
\* returns for an argument tuple, on a hit as on a miss, is the value f
\* returns for that tuple; on a miss f is invoked once, and its result is
\* stored under the key and returned.
MemoValuesAreFs ==
    \A m \in Layers("memo") :
        /\ \A i \in 1..Len(mlog) :
               /\ mlog[i].kind \in {"hit", "miss"} =>
                      /\ Len(mlog[i].args) = 2
                      /\ mlog[i].val = Apply(base, mlog[i].args[1], mlog[i].args[2])
               /\ mlog[i].kind = "hit" =>
                      \E j \in 1..(i - 1) :
                          /\ mlog[j].kind = "miss"
                          /\ mlog[j].args = mlog[i].args
                          /\ mlog[j].val = mlog[i].val
        /\ (Completed /\ ret.kind = "value") =>
               /\ ret.val = Apply(base, top.args[1], top.args[2])
               /\ ret.val = mlog[Len(mlog)].val
               /\ top.args \in DOMAIN CacheOf(m)
               /\ CacheOf(m)[top.args] = ret.val
               /\ CountedBy(m - 1) = IF mlog[Len(mlog)].kind = "miss" THEN 1 ELSE 0

MemoStoresThenReturns ==
    \A m \in 1..Len(wrappers) :
        (At("memo", "wait") /\ Cur.layer = m /\ ret.kind = "value") =>
            /\ ret' = ret
            /\ frames' = Popped
            /\ dicts'[DictOf(m)]["cache"] = SetAttr(CacheOf(m), Cur.args, ret.val)

MemoReturnsWhatFReturns == [] MemoValuesAreFs /\ [][MemoStoresThenReturns]_vars

MemoHitAfterMiss ==
    /\ Completed /\ base = "sub" /\ Only("memo", Outermost)
    /\ Len(mlog) = 2 /\ mlog[1].kind = "miss" /\ mlog[2].kind = "hit"
    /\ top.args = <<1, 0>> /\ ret = Ret(1)
    /\ invoked[0] = 1

\* C20: for g = memo(f), when f raises on a miss the error goes to g's
\* caller as it is and the cache is what it was before the call, with no
\* entry for the key, so that a later call with the same key calls f again.
MemoErrorKeepsCache ==
    \A m \in 1..Len(wrappers) :
        (At("memo", "wait") /\ Cur.layer = m /\ ret.kind = "error") =>
            /\ ret' = ret
            /\ frames' = Popped
            /\ dicts' = dicts

MemoRaisedAgain ==
    \A m \in Layers("memo") :
        /\ \A i \in 1..Len(mlog) :
               mlog[i].kind = "raise" =>
                   /\ mlog[i].key \notin DOMAIN CacheOf(m)
                   /\ \A j \in (i + 1)..Len(mlog) :
                          mlog[j].key = mlog[i].key => mlog[j].kind = "raise"
        /\ (Completed /\ ret.kind = "error") =>
               /\ mlog[Len(mlog)].kind = "raise"
               /\ m > 1 => CountedBy(m - 1) = 1

MemoErrorNotCached == [] MemoRaisedAgain /\ [][MemoErrorKeepsCache]_vars

MemoRaisedTwice ==
    /\ Completed /\ ret = Raise("TypeError")
    /\ KindsOfStack = <<"countcalls", "memo">>
    /\ Len(mlog) = 2 /\ mlog[1].kind = "raise" /\ mlog[2].kind = "raise"
    /\ mlog[1].key = mlog[2].key
    /\ ReadCalls(2) = 2 /\ CacheOf(2) = EmptyDict

====
